---- MODULE Spec2Model ----
(***************************************************************************)
(* The aerodrome decoder of rotkehlchen/chain/base/modules/aerodrome:      *)
(* the pool handlers (add liquidity, remove liquidity, swap) and the gauge *)
(* handler, each walking the transaction's list of decoded events and      *)
(* reclassifying the events that match.                                    *)
(*                                                                         *)
(* A dispatch is one call of _decode_pool_events or _decode_gauge_events   *)
(* with one receipt log.  `events` is context.decoded_events, `pre` is the *)
(* list as it was when the last dispatch was entered, `last` records the   *)
(* log of that dispatch and what it returned, raised and logged.           *)
(***************************************************************************)
EXTENDS Integers, Sequences, FiniteSets

VARIABLES
    pools,               \* self.pools
    gauges,              \* self.gauges
    protocol_addresses,  \* self.protocol_addresses
    cache,               \* the persisted cache of pool and gauge addresses
    fresh,               \* the cache of the decoder's cache type is fresh
    lock,                \* holder of the cache key's refresh lock, or None
    callers,             \* each caller of ensure_fresh: its position and result
    observed,            \* the (pools, gauges) a reader last read
    ncalls,              \* ensure_fresh calls begun
    nqueries,            \* remote queries begun
    token_protocol,      \* the protocol field of each EVM token (token metadata)
    events,              \* context.decoded_events
    pre,                 \* decoded_events on entry of the last dispatch
    last,                \* the last dispatch: its log, output, error, diagnostics
    ndispatch            \* number of dispatches so far

vars ==
    <<pools, gauges, protocol_addresses, cache, fresh, lock, callers, observed,
      ncalls, nqueries, token_protocol, events, pre, last, ndispatch>>

\* the state of the address registry and of its refresh
registry_vars ==
    <<pools, gauges, protocol_addresses, cache, fresh, lock, callers, observed,
      ncalls, nqueries>>

\* the state of the decoding of one transaction
decoding_vars == <<token_protocol, events, pre, last, ndispatch>>

----------------------------------------------------------------------------
(* Bounds of the model *)

\* longest event list of one transaction
MaxEvents == 4

\* number of logs dispatched for one transaction
MaxDispatches == 2

----------------------------------------------------------------------------
(* Addresses, topics, assets *)

None == "None"

ROUTER == "ROUTER"
ZERO_ADDRESS == "ZERO_ADDRESS"
POOL_A == "POOL_A"
POOL_B == "POOL_B"
GAUGE_A == "GAUGE_A"
USER_A == "USER_A"
USER_B == "USER_B"
TX_HASH == "TX_HASH"

ADD_LIQUIDITY_EVENT == "ADD_LIQUIDITY_EVENT"
REMOVE_LIQUIDITY_EVENT == "REMOVE_LIQUIDITY_EVENT"
SWAP == "SWAP"
GAUGE_DEPOSIT == "GAUGE_DEPOSIT"
GAUGE_WITHDRAW == "GAUGE_WITHDRAW"
CLAIM_REWARDS == "CLAIM_REWARDS"
\* a first topic that is none of the six signatures
OTHER_TOPIC == "OTHER_TOPIC"

CPT_AERODROME == "aerodrome"
CPT_GAS == "gas"
PRODUCT_POOL == "POOL"
PRODUCT_GAUGE == "GAUGE"

\* Asset identifiers.  A_ETH is the native asset (a crypto asset, no EVM
\* token), A_USDBC and LP_TOKEN are EVM tokens, A_UNKNOWN is an identifier
\* the asset resolver does not know.
A_ETH == "A_ETH"
A_USDBC == "A_USDBC"
LP_TOKEN == "LP_TOKEN"
A_UNKNOWN == "A_UNKNOWN"

\* event.asset.resolve_to_crypto_asset() returns (TRUE) or raises (FALSE)
ResolvesToCryptoAsset(asset) == asset \in {A_ETH, A_USDBC, LP_TOKEN}

\* event.asset.resolve_to_evm_token() returns (TRUE) or raises (FALSE)
ResolvesToEvmToken(asset) == asset \in {A_USDBC, LP_TOKEN}

\* crypto_asset.symbol
Symbol(asset) ==
    CASE asset = A_ETH -> "ETH"
      [] asset = A_USDBC -> "USDbC"
      [] asset = LP_TOKEN -> "vAMM-WETH/USDbC"
      [] OTHER -> None

\* Decimals of the asset.  The model's tokens have 2 and 1 decimals (18 and 6
\* on chain) so that amounts stay small.
Decimals(asset) ==
    CASE asset = A_USDBC -> 1
      [] OTHER -> 2

Pow10(k) == IF k = 0 THEN 1 ELSE IF k = 1 THEN 10 ELSE 100

\* balance.amount is a decimal number; the model holds it as the count of
\* hundredths (the finest unit of any asset of the model).
\* asset_normalized_value(amount=raw, asset) = raw / 10**decimals.
asset_normalized_value(raw, asset) == raw * Pow10(2 - Decimals(asset))

DEFAULT_DECODING_OUTPUT == [refresh_balances |-> FALSE]

\* the EVM tokens of the model (the assets resolve_to_evm_token() returns)
EvmTokens == {A_USDBC, LP_TOKEN}

\* protocol tags of a token: AERODROME_POOL_PROTOCOL, or the tag of another
\* protocol; None is the unset field
AERODROME_POOL_PROTOCOL == "aerodrome_pool"
OTHER_PROTOCOL == "other_protocol"

\* set_token_protocol_if_missing(evm_token, protocol): the token's protocol
\* field afterwards, given the field as it is (written only when unset)
set_token_protocol_if_missing(current, protocol) ==
    IF current = None THEN protocol ELSE current

\* TagTokens with the handler assigning the token's protocol itself instead
\* of calling set_token_protocol_if_missing
TagTokens_AssignsProtocol(tags, tagged) ==
    [t \in EvmTokens |-> IF t \in tagged THEN AERODROME_POOL_PROTOCOL ELSE tags[t]]

\* the token metadata after the calls of one handler for the tokens of
\* `tagged`
TagTokens(tags, tagged) ==
    [t \in EvmTokens |->
        IF t \in tagged
        THEN set_token_protocol_if_missing(tags[t], AERODROME_POOL_PROTOCOL)
        ELSE tags[t]]

----------------------------------------------------------------------------
(* Events *)

Note(kind, amount, symbol, where) ==
    [kind |-> kind, amount |-> amount, symbol |-> symbol, where |-> where]

\* An event as the generic decoding leaves it, before this decoder runs.
RawEvent(type, subtype, asset, amount, label, address, counterparty) ==
    [ id |-> 0,
      event_type |-> type,
      event_subtype |-> subtype,
      asset |-> asset,
      amount |-> amount,
      location_label |-> label,
      address |-> address,
      counterparty |-> counterparty,
      product |-> None,
      notes |-> Note("upstream", amount, Symbol(asset), address) ]

\* i-th event with the given id (the object's identity)
WithIds(seq) == [i \in 1..Len(seq) |-> [seq[i] EXCEPT !.id = i]]

\* position of the event of identity id in evs (0 when absent)
IndexOf(evs, id) ==
    IF \E i \in 1..Len(evs) : evs[i].id = id
    THEN CHOOSE i \in 1..Len(evs) : evs[i].id = id
    ELSE 0

ById(evs, id) == evs[IndexOf(evs, id)]

\* evs without the positions whose event identity is in ids, order kept
RECURSIVE Without(_, _)
Without(evs, ids) ==
    IF evs = <<>> THEN <<>>
    ELSE IF Head(evs).id \in ids THEN Without(Tail(evs), ids)
    ELSE <<Head(evs)>> \o Without(Tail(evs), ids)

\* all sequences over S of length at most n
SeqsUpTo(S, n) == UNION {[1..k -> S] : k \in 0..n}

\* IsSpendNone testing the type alone: a spend of any subtype is a candidate
IsSpendNone_AnySubtype(e) == e.event_type = "SPEND"

IsSpendNone(e) == e.event_type = "SPEND" /\ e.event_subtype = "NONE"
IsReceiveNone(e) == e.event_type = "RECEIVE" /\ e.event_subtype = "NONE"

----------------------------------------------------------------------------
(* The walk over decoded_events                                            *)
(*                                                                         *)
(* Every handler is `for event in decoded_events:` with a body that reads  *)
(* and writes the current event only.  A step is what the body does to one *)
(* event: the event afterwards, whether the body raised, whether it wrote  *)
(* the event, and (swap) the leg the event was taken for.  An exception    *)
(* leaves the loop: the events after the raising one are not visited.      *)

Step(ev, raised, wrote, leg) ==
    [ev |-> ev, raised |-> raised, wrote |-> wrote, leg |-> leg]

\* crypto_asset = event.asset.resolve_to_crypto_asset() raised
ResolveFailed(e) == Step(e, TRUE, FALSE, None)

\* the body matched neither branch
Skipped(e) == Step(e, FALSE, FALSE, None)

\* index of the first step that raised, Len + 1 when none did
StopIndex(steps) ==
    IF \E i \in 1..Len(steps) : steps[i].raised
    THEN CHOOSE i \in 1..Len(steps) :
            /\ steps[i].raised
            /\ \A j \in 1..(i - 1) : ~steps[j].raised
    ELSE Len(steps) + 1

\* Walked with the exception of an event caught inside the loop: the walk
\* goes on with the next event
Walked_GoesOn(evs, steps) == [i \in 1..Len(evs) |-> steps[i].ev]

Walked(evs, steps) ==
    [i \in 1..Len(evs) |-> IF i <= StopIndex(steps) THEN steps[i].ev ELSE evs[i]]

WalkRaised(steps) == StopIndex(steps) <= Len(steps)

Touched(evs, steps) ==
    {evs[i].id : i \in {j \in 1..Len(evs) : j <= StopIndex(steps) /\ steps[j].wrote}}

\* the events the walk visited: those up to the one that raised
Visited(evs, steps) == {i \in 1..Len(evs) : i <= StopIndex(steps)}

----------------------------------------------------------------------------
(* _decode_add_liquidity_events *)

\* AddLiquidityStep with the receive branch testing the pools (as the
\* remove-liquidity handler does) instead of the zero address
AddLiquidityStep_ReceiveFromPool(e, log) ==
    IF ~ResolvesToCryptoAsset(e.asset) THEN ResolveFailed(e)
    ELSE IF IsSpendNone(e) /\ e.address \in pools THEN
        Step([e EXCEPT !.event_type = "DEPOSIT",
                       !.event_subtype = "DEPOSIT_ASSET",
                       !.counterparty = CPT_AERODROME,
                       !.notes = Note("Deposit in aerodrome pool", e.amount,
                                      Symbol(e.asset), e.address),
                       !.product = PRODUCT_POOL],
             FALSE, TRUE, None)
    ELSE IF IsReceiveNone(e) /\ e.address \in pools THEN
        Step([e EXCEPT !.event_subtype = "RECEIVE_WRAPPED",
                       !.counterparty = CPT_AERODROME,
                       !.notes = Note("Receive after depositing in aerodrome pool",
                                      e.amount, Symbol(e.asset), log.address),
                       !.product = PRODUCT_POOL],
             ~ResolvesToEvmToken(e.asset), TRUE, None)
    ELSE Skipped(e)

\* AddLiquidityStep with the spend branch testing protocol_addresses (as the
\* swap handler does) instead of the pools
AddLiquidityStep_ProtocolAddresses(e, log) ==
    IF ~ResolvesToCryptoAsset(e.asset) THEN ResolveFailed(e)
    ELSE IF IsSpendNone(e) /\ e.address \in protocol_addresses THEN
        Step([e EXCEPT !.event_type = "DEPOSIT",
                       !.event_subtype = "DEPOSIT_ASSET",
                       !.counterparty = CPT_AERODROME,
                       !.notes = Note("Deposit in aerodrome pool", e.amount,
                                      Symbol(e.asset), e.address),
                       !.product = PRODUCT_POOL],
             FALSE, TRUE, None)
    ELSE IF IsReceiveNone(e) /\ e.address = ZERO_ADDRESS THEN
        Step([e EXCEPT !.event_subtype = "RECEIVE_WRAPPED",
                       !.counterparty = CPT_AERODROME,
                       !.notes = Note("Receive after depositing in aerodrome pool",
                                      e.amount, Symbol(e.asset), log.address),
                       !.product = PRODUCT_POOL],
             ~ResolvesToEvmToken(e.asset), TRUE, None)
    ELSE Skipped(e)

AddLiquidityStep(e, log) ==
    IF ~ResolvesToCryptoAsset(e.asset) THEN ResolveFailed(e)
    ELSE IF IsSpendNone(e) /\ e.address \in pools THEN
        Step([e EXCEPT !.event_type = "DEPOSIT",
                       !.event_subtype = "DEPOSIT_ASSET",
                       !.counterparty = CPT_AERODROME,
                       !.notes = Note("Deposit in aerodrome pool", e.amount,
                                      Symbol(e.asset), e.address),
                       !.product = PRODUCT_POOL],
             FALSE, TRUE, None)
    ELSE IF IsReceiveNone(e) /\ e.address = ZERO_ADDRESS THEN
        \* the event is written before resolve_to_evm_token() can raise
        Step([e EXCEPT !.event_subtype = "RECEIVE_WRAPPED",
                       !.counterparty = CPT_AERODROME,
                       !.notes = Note("Receive after depositing in aerodrome pool",
                                      e.amount, Symbol(e.asset), log.address),
                       !.product = PRODUCT_POOL],
             ~ResolvesToEvmToken(e.asset), TRUE, None)
    ELSE Skipped(e)

AddLiquiditySteps(evs, log) == [i \in 1..Len(evs) |-> AddLiquidityStep(evs[i], log)]

\* the body reaches set_token_protocol_if_missing for e: the second branch
\* is taken and resolve_to_evm_token() returns
AddLiquidityTags(e) ==
    /\ ResolvesToCryptoAsset(e.asset)
    /\ ~(IsSpendNone(e) /\ e.address \in pools)
    /\ IsReceiveNone(e) /\ e.address = ZERO_ADDRESS
    /\ ResolvesToEvmToken(e.asset)

----------------------------------------------------------------------------
(* _decode_remove_liquidity_events *)

\* RemoveLiquidityStep with the receive branch leaving event_type alone
RemoveLiquidityStep_TypeKept(e, log) ==
    IF ~ResolvesToCryptoAsset(e.asset) THEN ResolveFailed(e)
    ELSE IF IsSpendNone(e) /\ e.address \in pools THEN
        Step([e EXCEPT !.event_subtype = "RETURN_WRAPPED",
                       !.counterparty = CPT_AERODROME,
                       !.notes = Note("Return", e.amount, Symbol(e.asset), None),
                       !.product = PRODUCT_POOL],
             FALSE, TRUE, None)
    ELSE IF IsReceiveNone(e) /\ e.address \in pools THEN
        Step([e EXCEPT !.event_subtype = "REMOVE_ASSET",
                       !.counterparty = CPT_AERODROME,
                       !.notes = Note("Remove from aerodrome pool", e.amount,
                                      Symbol(e.asset), log.address),
                       !.product = PRODUCT_POOL],
             FALSE, TRUE, None)
    ELSE Skipped(e)

\* RemoveLiquidityStep with the receive branch also assigning the emitter of
\* the log to event.address (the code only puts it in the notes)
RemoveLiquidityStep_WritesAddress(e, log) ==
    IF ~ResolvesToCryptoAsset(e.asset) THEN ResolveFailed(e)
    ELSE IF IsSpendNone(e) /\ e.address \in pools THEN
        Step([e EXCEPT !.event_subtype = "RETURN_WRAPPED",
                       !.counterparty = CPT_AERODROME,
                       !.notes = Note("Return", e.amount, Symbol(e.asset), None),
                       !.product = PRODUCT_POOL],
             FALSE, TRUE, None)
    ELSE IF IsReceiveNone(e) /\ e.address \in pools THEN
        Step([e EXCEPT !.event_type = "WITHDRAWAL",
                       !.event_subtype = "REMOVE_ASSET",
                       !.counterparty = CPT_AERODROME,
                       !.address = log.address,
                       !.notes = Note("Remove from aerodrome pool", e.amount,
                                      Symbol(e.asset), log.address),
                       !.product = PRODUCT_POOL],
             FALSE, TRUE, None)
    ELSE Skipped(e)

RemoveLiquidityStep(e, log) ==
    IF ~ResolvesToCryptoAsset(e.asset) THEN ResolveFailed(e)
    ELSE IF IsSpendNone(e) /\ e.address \in pools THEN
        Step([e EXCEPT !.event_subtype = "RETURN_WRAPPED",
                       !.counterparty = CPT_AERODROME,
                       !.notes = Note("Return", e.amount, Symbol(e.asset), None),
                       !.product = PRODUCT_POOL],
             FALSE, TRUE, None)
    ELSE IF IsReceiveNone(e) /\ e.address \in pools THEN
        Step([e EXCEPT !.event_type = "WITHDRAWAL",
                       !.event_subtype = "REMOVE_ASSET",
                       !.counterparty = CPT_AERODROME,
                       !.notes = Note("Remove from aerodrome pool", e.amount,
                                      Symbol(e.asset), log.address),
                       !.product = PRODUCT_POOL],
             FALSE, TRUE, None)
    ELSE Skipped(e)

RemoveLiquiditySteps(evs, log) == [i \in 1..Len(evs) |-> RemoveLiquidityStep(evs[i], log)]

----------------------------------------------------------------------------
(* What one handler call leaves behind *)

Outcome(evs, raised, output, diagnostics, touched, legs) ==
    [ events |-> evs,            \* decoded_events afterwards
      raised |-> raised,         \* the call ended by an exception
      \* the DecodingOutput returned; nothing is returned when the call
      \* raised, and the field then holds the default
      output |-> IF raised THEN DEFAULT_DECODING_OUTPUT ELSE output,
      diagnostics |-> diagnostics,   \* the log.error calls made
      touched |-> touched,       \* identities of the events the call wrote
      legs |-> legs,             \* (swap) spend_event and receive_event
      \* the tokens set_token_protocol_if_missing was called for
      tagged |-> {} ]

\* `spend_event, receive_event = None, None`: no event (identities start at 1)
NoEvent == 0

Legs(spendId, receiveId) == [spend_event |-> spendId, receive_event |-> receiveId]

NoLegs == Legs(NoEvent, NoEvent)

\* the walk of a liquidity handler, then `return DEFAULT_DECODING_OUTPUT`
\* WalkOutcome returning a refresh request when the walk wrote an event, as
\* the gauge handler does
WalkOutcome_RefreshWhenWritten(evs, steps) ==
    Outcome(Walked(evs, steps), WalkRaised(steps),
            [refresh_balances |-> Touched(evs, steps) # {}],
            <<>>, Touched(evs, steps), NoLegs)

WalkOutcome(evs, steps) ==
    Outcome(Walked(evs, steps), WalkRaised(steps), DEFAULT_DECODING_OUTPUT,
            <<>>, Touched(evs, steps), NoLegs)

decode_add_liquidity_events(log, evs) ==
    LET steps == AddLiquiditySteps(evs, log)
    IN [WalkOutcome(evs, steps) EXCEPT
          !.tagged = {evs[i].asset : i \in {j \in Visited(evs, steps) : AddLiquidityTags(evs[j])}}]

decode_remove_liquidity_events(log, evs) == WalkOutcome(evs, RemoveLiquiditySteps(evs, log))

----------------------------------------------------------------------------
(* maybe_reshuffle_events(ordered_events=[spend, receive], events_list)    *)
(* The two events end adjacent, spend first; the other events keep their   *)
(* relative order.  Where the pair is spliced among the others is left     *)
(* open: every position is a possible result.  A pair that already is      *)
(* adjacent and in order stays where it is.                                *)

SpliceAt(others, pos, pair) ==
    SubSeq(others, 1, pos) \o pair \o SubSeq(others, pos + 1, Len(others))

maybe_reshuffle_events(evs, spendId, receiveId) ==
    IF IndexOf(evs, receiveId) = IndexOf(evs, spendId) + 1 THEN {evs}
    ELSE LET others == Without(evs, {spendId, receiveId})
             pair == <<ById(evs, spendId), ById(evs, receiveId)>>
         IN {SpliceAt(others, pos, pair) : pos \in 0..Len(others)}

----------------------------------------------------------------------------
(* _decode_swap *)

\* SwapStep with the router left out of the addresses a leg may have
SwapStep_PoolsOnly(e) ==
    IF ~ResolvesToCryptoAsset(e.asset) THEN ResolveFailed(e)
    ELSE IF IsSpendNone(e) /\ e.address \in pools THEN
        Step([e EXCEPT !.event_type = "TRADE",
                       !.event_subtype = "SPEND",
                       !.counterparty = CPT_AERODROME,
                       !.notes = Note("Swap in aerodrome", e.amount,
                                      Symbol(e.asset), None)],
             FALSE, TRUE, "spend")
    ELSE IF IsReceiveNone(e) /\ e.address \in pools THEN
        Step([e EXCEPT !.event_type = "TRADE",
                       !.event_subtype = "RECEIVE",
                       !.counterparty = CPT_AERODROME,
                       !.notes = Note("Receive as the result of a swap in aerodrome",
                                      e.amount, Symbol(e.asset), None)],
             FALSE, TRUE, "receive")
    ELSE Skipped(e)

\* SwapStep without the check of the raw shape: an event the protocol
\* addresses sent or received is taken whatever its type and subtype are
SwapStep_NoShapeCheck(e) ==
    IF ~ResolvesToCryptoAsset(e.asset) THEN ResolveFailed(e)
    ELSE IF e.event_type \in {"SPEND", "TRADE"} /\ e.event_subtype \in {"NONE", "SPEND"}
            /\ e.address \in protocol_addresses THEN
        Step([e EXCEPT !.event_type = "TRADE",
                       !.event_subtype = "SPEND",
                       !.counterparty = CPT_AERODROME,
                       !.notes = Note("Swap in aerodrome", e.amount,
                                      Symbol(e.asset), None)],
             FALSE, TRUE, "spend")
    ELSE IF e.event_type \in {"RECEIVE", "TRADE"} /\ e.event_subtype \in {"NONE", "RECEIVE"}
            /\ e.address \in protocol_addresses THEN
        Step([e EXCEPT !.event_type = "TRADE",
                       !.event_subtype = "RECEIVE",
                       !.counterparty = CPT_AERODROME,
                       !.notes = Note("Receive as the result of a swap in aerodrome",
                                      e.amount, Symbol(e.asset), None)],
             FALSE, TRUE, "receive")
    ELSE Skipped(e)

SwapStep(e) ==
    IF ~ResolvesToCryptoAsset(e.asset) THEN ResolveFailed(e)
    ELSE IF IsSpendNone(e) /\ e.address \in protocol_addresses THEN
        Step([e EXCEPT !.event_type = "TRADE",
                       !.event_subtype = "SPEND",
                       !.counterparty = CPT_AERODROME,
                       !.notes = Note("Swap in aerodrome", e.amount,
                                      Symbol(e.asset), None)],
             FALSE, TRUE, "spend")
    ELSE IF IsReceiveNone(e) /\ e.address \in protocol_addresses THEN
        Step([e EXCEPT !.event_type = "TRADE",
                       !.event_subtype = "RECEIVE",
                       !.counterparty = CPT_AERODROME,
                       !.notes = Note("Receive as the result of a swap in aerodrome",
                                      e.amount, Symbol(e.asset), None)],
             FALSE, TRUE, "receive")
    ELSE Skipped(e)

SwapSteps(evs) == [i \in 1..Len(evs) |-> SwapStep(evs[i])]

\* spend_event / receive_event after the loop: the last event taken for the
\* leg (each match overwrites the variable), NoEvent when there was none
LegEvent(evs, steps, leg) ==
    LET found == {i \in 1..Len(evs) : steps[i].leg = leg}
    IN IF found = {} THEN NoEvent
       ELSE evs[CHOOSE i \in found : \A j \in found : j <= i].id

\* the log.error of lines 175-180
MissingLegDiagnostic(spendId, receiveId) ==
    [tx_hash |-> TX_HASH, spend_event |-> spendId, receive_event |-> receiveId]

\* decode_swap with the missing leg raised as an error instead of logged
decode_swap_MissingLegRaises(evs) ==
    LET steps == SwapSteps(evs)
        walked == Walked(evs, steps)
        spend_event == LegEvent(evs, steps, "spend")
        receive_event == LegEvent(evs, steps, "receive")
    IN IF WalkRaised(steps) THEN
           {Outcome(walked, TRUE, DEFAULT_DECODING_OUTPUT, <<>>,
                    Touched(evs, steps), NoLegs)}
       ELSE IF spend_event = NoEvent \/ receive_event = NoEvent THEN
           {Outcome(walked, TRUE, DEFAULT_DECODING_OUTPUT, <<>>,
                    Touched(evs, steps),
                    Legs(spend_event, receive_event))}
       ELSE
           {Outcome(shuffled, FALSE, DEFAULT_DECODING_OUTPUT, <<>>,
                    Touched(evs, steps),
                    Legs(spend_event, receive_event))
              : shuffled \in maybe_reshuffle_events(walked, spend_event, receive_event)}

\* decode_swap with ordered_events=[receive_event, spend_event]
decode_swap_LegsSwapped(evs) ==
    LET steps == SwapSteps(evs)
        walked == Walked(evs, steps)
        spend_event == LegEvent(evs, steps, "spend")
        receive_event == LegEvent(evs, steps, "receive")
    IN IF WalkRaised(steps) THEN
           {Outcome(walked, TRUE, DEFAULT_DECODING_OUTPUT, <<>>,
                    Touched(evs, steps), NoLegs)}
       ELSE IF spend_event = NoEvent \/ receive_event = NoEvent THEN
           {Outcome(walked, FALSE, DEFAULT_DECODING_OUTPUT,
                    <<MissingLegDiagnostic(spend_event, receive_event)>>,
                    Touched(evs, steps),
                    Legs(spend_event, receive_event))}
       ELSE
           {Outcome(shuffled, FALSE, DEFAULT_DECODING_OUTPUT, <<>>,
                    Touched(evs, steps),
                    Legs(spend_event, receive_event))
              : shuffled \in maybe_reshuffle_events(walked, receive_event, spend_event)}

\* the set of outcomes of _decode_swap (more than one only through the
\* position maybe_reshuffle_events splices the pair at)
decode_swap(evs) ==
    LET steps == SwapSteps(evs)
        walked == Walked(evs, steps)
        spend_event == LegEvent(evs, steps, "spend")
        receive_event == LegEvent(evs, steps, "receive")
    IN IF WalkRaised(steps) THEN
           {Outcome(walked, TRUE, DEFAULT_DECODING_OUTPUT, <<>>,
                    Touched(evs, steps), NoLegs)}
       ELSE IF spend_event = NoEvent \/ receive_event = NoEvent THEN
           {Outcome(walked, FALSE, DEFAULT_DECODING_OUTPUT,
                    <<MissingLegDiagnostic(spend_event, receive_event)>>,
                    Touched(evs, steps),
                    Legs(spend_event, receive_event))}
       ELSE
           {Outcome(shuffled, FALSE, DEFAULT_DECODING_OUTPUT, <<>>,
                    Touched(evs, steps),
                    Legs(spend_event, receive_event))
              : shuffled \in maybe_reshuffle_events(walked, spend_event, receive_event)}

----------------------------------------------------------------------------
(* _decode_gauge_events *)

\* a receipt log: emitter, first topic, the account of the second topic
\* (hex_or_bytes_to_address) and the payload as an integer (hex_or_bytes_to_int)
Log(address, topic0, account, raw_amount) ==
    [address |-> address, topic0 |-> topic0, account |-> account, raw_amount |-> raw_amount]

\* GaugeMatches without the comparison of the amounts
GaugeMatches_NoAmount(e, log) ==
    /\ e.location_label = log.account
    /\ e.address = log.address

GaugeMatches(e, log) ==
    /\ e.location_label = log.account
    /\ e.address = log.address
    /\ e.amount = asset_normalized_value(log.raw_amount, e.asset)

\* GaugeStep with the CLAIM_REWARDS branch leaving event_type alone (the
\* RECEIVE/REWARD pair that possible_events lists)
GaugeStep_RewardTypeKept(e, log) ==
    IF ~ResolvesToCryptoAsset(e.asset) THEN ResolveFailed(e)
    ELSE IF GaugeMatches(e, log) THEN
        LET tagged == [e EXCEPT !.counterparty = CPT_AERODROME, !.product = PRODUCT_GAUGE]
        IN IF log.topic0 = GAUGE_DEPOSIT THEN
               Step([tagged EXCEPT !.event_type = "DEPOSIT",
                                   !.event_subtype = "DEPOSIT_ASSET",
                                   !.notes = Note("Deposit into aerodrome gauge", e.amount,
                                                  Symbol(e.asset), log.address)],
                    ~ResolvesToEvmToken(e.asset), TRUE, None)
           ELSE IF log.topic0 = GAUGE_WITHDRAW THEN
               Step([tagged EXCEPT !.event_type = "WITHDRAWAL",
                                   !.event_subtype = "REMOVE_ASSET",
                                   !.notes = Note("Withdraw from aerodrome gauge", e.amount,
                                                  Symbol(e.asset), log.address)],
                    FALSE, TRUE, None)
           ELSE
               Step([tagged EXCEPT !.event_subtype = "REWARD",
                                   !.notes = Note("Receive rewards from aerodrome gauge",
                                                  e.amount, Symbol(e.asset), log.address)],
                    FALSE, TRUE, None)
    ELSE Skipped(e)

GaugeStep(e, log) ==
    IF ~ResolvesToCryptoAsset(e.asset) THEN ResolveFailed(e)
    ELSE IF GaugeMatches(e, log) THEN
        LET tagged == [e EXCEPT !.counterparty = CPT_AERODROME, !.product = PRODUCT_GAUGE]
        IN IF log.topic0 = GAUGE_DEPOSIT THEN
               \* the event is written before resolve_to_evm_token() can raise
               Step([tagged EXCEPT !.event_type = "DEPOSIT",
                                   !.event_subtype = "DEPOSIT_ASSET",
                                   !.notes = Note("Deposit into aerodrome gauge", e.amount,
                                                  Symbol(e.asset), log.address)],
                    ~ResolvesToEvmToken(e.asset), TRUE, None)
           ELSE IF log.topic0 = GAUGE_WITHDRAW THEN
               Step([tagged EXCEPT !.event_type = "WITHDRAWAL",
                                   !.event_subtype = "REMOVE_ASSET",
                                   !.notes = Note("Withdraw from aerodrome gauge", e.amount,
                                                  Symbol(e.asset), log.address)],
                    FALSE, TRUE, None)
           ELSE
               Step([tagged EXCEPT !.event_type = "WITHDRAWAL",
                                   !.event_subtype = "REWARD",
                                   !.notes = Note("Receive rewards from aerodrome gauge",
                                                  e.amount, Symbol(e.asset), log.address)],
                    FALSE, TRUE, None)
    ELSE Skipped(e)

GaugeSteps(evs, log) == [i \in 1..Len(evs) |-> GaugeStep(evs[i], log)]

\* the body reaches set_token_protocol_if_missing for e: the event matches,
\* the topic is GAUGE_DEPOSIT and resolve_to_evm_token() returns
GaugeTags(e, log) ==
    /\ ResolvesToCryptoAsset(e.asset)
    /\ GaugeMatches(e, log)
    /\ log.topic0 = GAUGE_DEPOSIT
    /\ ResolvesToEvmToken(e.asset)

\* found_event_modifying_balances set in the GAUGE_DEPOSIT branch only
FoundEventModifyingBalances_DepositOnly(evs, steps) ==
    \E i \in 1..Len(evs) : steps[i].wrote /\ steps[i].ev.event_type = "DEPOSIT"

\* found_event_modifying_balances when the loop is left normally
FoundEventModifyingBalances(evs, steps) == \E i \in 1..Len(evs) : steps[i].wrote

GAUGE_TOPICS == {GAUGE_DEPOSIT, GAUGE_WITHDRAW, CLAIM_REWARDS}

Unchanged(evs) == Outcome(evs, FALSE, DEFAULT_DECODING_OUTPUT, <<>>, {}, NoLegs)

\* decode_gauge_events without the test of the first topic: every log is
\* walked, an unrecognized topic falling into the last branch
decode_gauge_events_NoTopicCheck(log, evs) ==
    LET steps == GaugeSteps(evs, log)
    IN [Outcome(Walked(evs, steps), WalkRaised(steps),
                [refresh_balances |-> FoundEventModifyingBalances(evs, steps)],
                <<>>, Touched(evs, steps), NoLegs) EXCEPT
          !.tagged = {evs[i].asset : i \in {j \in Visited(evs, steps) : GaugeTags(evs[j], log)}}]

decode_gauge_events(log, evs) ==
    IF log.topic0 \notin GAUGE_TOPICS THEN Unchanged(evs)
    ELSE LET steps == GaugeSteps(evs, log)
         IN [Outcome(Walked(evs, steps), WalkRaised(steps),
                     [refresh_balances |-> FoundEventModifyingBalances(evs, steps)],
                     <<>>, Touched(evs, steps), NoLegs) EXCEPT
               !.tagged = {evs[i].asset : i \in {j \in Visited(evs, steps) : GaugeTags(evs[j], log)}}]

----------------------------------------------------------------------------
(* _decode_pool_events: the set of outcomes of one pool log *)

decode_pool_events(log, evs) ==
    IF log.topic0 = REMOVE_LIQUIDITY_EVENT THEN {decode_remove_liquidity_events(log, evs)}
    ELSE IF log.topic0 = ADD_LIQUIDITY_EVENT THEN {decode_add_liquidity_events(log, evs)}
    ELSE IF log.topic0 = SWAP THEN decode_swap(evs)
    ELSE {Unchanged(evs)}

----------------------------------------------------------------------------
(* State after construction, and the inputs *)

\* read_aerodrome_pools_and_gauges_from_cache() at construction
CachedPools == {POOL_A, POOL_B}
CachedGauges == {GAUGE_A}

\* The gas fee: when the sender is tracked it is the first event of the list
\* (sequence index 0), before the events decoded from the logs.
GasEvent == RawEvent("SPEND", "FEE", A_ETH, 3, USER_A, None, CPT_GAS)

\* Events of a transaction that touches pools and the router: a spend through
\* the router, a spend to a pool, a receive from a pool, the LP tokens minted
\* from the zero address.
PoolEvents ==
    { RawEvent("SPEND", "NONE", A_ETH, 10, USER_A, ROUTER, None),
      RawEvent("SPEND", "NONE", A_USDBC, 20, USER_A, POOL_A, None),
      RawEvent("RECEIVE", "NONE", A_USDBC, 50, USER_A, POOL_B, None),
      RawEvent("RECEIVE", "NONE", LP_TOKEN, 7, USER_A, ZERO_ADDRESS, None) }

\* first topics a pool log is dispatched with
PoolTopics == {REMOVE_LIQUIDITY_EVENT, ADD_LIQUIDITY_EVENT, SWAP, OTHER_TOPIC}

PoolLogs == {Log(a, t, None, 0) : a \in pools, t \in PoolTopics}

\* a pair of address sets: what one query returns, what the cache holds
Addresses(p, g) == [pools |-> p, gauges |-> g]

\* the callers of ensure_fresh
Callers == {"c1", "c2"}

\* a caller outside ensure_fresh, before its first call
Idle == [pc |-> "idle", query |-> None, result |-> None]

\* the registry after construction when no refresh is under way: the sets
\* read from the persisted cache, which is fresh
RegistryIdle ==
    /\ cache = Addresses(CachedPools, CachedGauges)
    /\ fresh = TRUE
    /\ lock = None
    /\ callers = [c \in Callers |-> Idle]
    /\ observed = Addresses(CachedPools, CachedGauges)
    /\ ncalls = 0
    /\ nqueries = 0

\* no token carries a protocol tag yet
NoTags == [t \in EvmTokens |-> None]

NoDispatch ==
    [ kind |-> None, log |-> Log(None, None, None, 0), raised |-> FALSE,
      output |-> DEFAULT_DECODING_OUTPUT, diagnostics |-> <<>>, touched |-> {},
      legs |-> NoLegs, tagged |-> {}, tags_before |-> NoTags,
      no_error_so_far |-> TRUE ]

\* the lists of at most n events: the gas fee or not, then events of templates
EventLists(templates, n) ==
    SeqsUpTo(templates, n) \cup {<<GasEvent>> \o s : s \in SeqsUpTo(templates, n - 1)}

InitWith(templates, n) ==
    /\ pools = CachedPools
    /\ gauges = CachedGauges
    /\ protocol_addresses = {ROUTER} \cup CachedPools
    /\ RegistryIdle
    /\ token_protocol = NoTags
    /\ events \in {WithIds(s) : s \in EventLists(templates, n)}
    /\ pre = events
    /\ last = NoDispatch
    /\ ndispatch = 0

Init == InitWith(PoolEvents, MaxEvents)

----------------------------------------------------------------------------
(* Dispatches *)

\* the bookkeeping of one handler call with outcome out
Dispatch(kind, log, out) ==
    /\ ndispatch < MaxDispatches
    /\ events' = out.events
    /\ token_protocol' = TagTokens(token_protocol, out.tagged)
    /\ pre' = events
    /\ last' = [ kind |-> kind, log |-> log, raised |-> out.raised,
                 output |-> out.output, diagnostics |-> out.diagnostics,
                 touched |-> out.touched, legs |-> out.legs,
                 tagged |-> out.tagged, tags_before |-> token_protocol,
                 no_error_so_far |-> last.no_error_so_far /\ ~out.raised ]
    /\ ndispatch' = ndispatch + 1
    /\ UNCHANGED registry_vars

\* _decode_pool_events with a log whose first topic is REMOVE_LIQUIDITY_EVENT
DecodeRemoveLiquidity ==
    \E log \in PoolLogs :
        /\ log.topic0 = REMOVE_LIQUIDITY_EVENT
        /\ \E out \in decode_pool_events(log, events) : Dispatch("pool", log, out)

\* _decode_pool_events with a log whose first topic is ADD_LIQUIDITY_EVENT
DecodeAddLiquidity ==
    \E log \in PoolLogs :
        /\ log.topic0 = ADD_LIQUIDITY_EVENT
        /\ \E out \in decode_pool_events(log, events) : Dispatch("pool", log, out)

\* _decode_pool_events with a log whose first topic is SWAP
DecodeSwap ==
    \E log \in PoolLogs :
        /\ log.topic0 = SWAP
        /\ \E out \in decode_pool_events(log, events) : Dispatch("pool", log, out)

\* _decode_pool_events with a log of any other first topic
DecodePoolOther ==
    \E log \in PoolLogs :
        /\ log.topic0 \notin {REMOVE_LIQUIDITY_EVENT, ADD_LIQUIDITY_EVENT, SWAP}
        /\ \E out \in decode_pool_events(log, events) : Dispatch("pool", log, out)

Next ==
    \/ DecodeRemoveLiquidity
    \/ DecodeAddLiquidity
    \/ DecodeSwap
    \/ DecodePoolOther

Spec == Init /\ [][Next]_vars

----------------------------------------------------------------------------
(* Gauge dispatches *)

\* Events of a transaction that touches a gauge: LP tokens sent to the gauge
\* by the account, a token of other decimals received from the gauge, the
\* same LP amount sent by another account, and sent to a pool instead, and
\* the native asset received from the gauge.
GaugeEvents ==
    { RawEvent("SPEND", "NONE", LP_TOKEN, 10, USER_A, GAUGE_A, None),
      RawEvent("RECEIVE", "NONE", A_USDBC, 10, USER_A, GAUGE_A, None),
      RawEvent("SPEND", "NONE", LP_TOKEN, 10, USER_B, GAUGE_A, None),
      RawEvent("SPEND", "NONE", LP_TOKEN, 10, USER_A, POOL_A, None),
      RawEvent("RECEIVE", "NONE", A_ETH, 10, USER_A, GAUGE_A, None) }

\* first topics a gauge log is dispatched with
GaugeTopics == {GAUGE_DEPOSIT, GAUGE_WITHDRAW, CLAIM_REWARDS, OTHER_TOPIC}

\* raw amounts of the payload
RawAmounts == {1, 10}

GaugeLogs == {Log(a, t, USER_A, r) : a \in gauges, t \in GaugeTopics, r \in RawAmounts}

InitGauge == InitWith(GaugeEvents, MaxEvents)

\* _decode_gauge_events with a GAUGE_DEPOSIT log
DecodeGaugeDeposit ==
    \E log \in GaugeLogs :
        /\ log.topic0 = GAUGE_DEPOSIT
        /\ Dispatch("gauge", log, decode_gauge_events(log, events))

\* _decode_gauge_events with a GAUGE_WITHDRAW log
DecodeGaugeWithdraw ==
    \E log \in GaugeLogs :
        /\ log.topic0 = GAUGE_WITHDRAW
        /\ Dispatch("gauge", log, decode_gauge_events(log, events))

\* _decode_gauge_events with a CLAIM_REWARDS log
DecodeClaimRewards ==
    \E log \in GaugeLogs :
        /\ log.topic0 = CLAIM_REWARDS
        /\ Dispatch("gauge", log, decode_gauge_events(log, events))

\* _decode_gauge_events with a log of any other first topic
DecodeGaugeOther ==
    \E log \in GaugeLogs :
        /\ log.topic0 \notin GAUGE_TOPICS
        /\ Dispatch("gauge", log, decode_gauge_events(log, events))

NextGauge ==
    \/ DecodeGaugeDeposit
    \/ DecodeGaugeWithdraw
    \/ DecodeClaimRewards
    \/ DecodeGaugeOther

SpecGauge == InitGauge /\ [][NextGauge]_vars

----------------------------------------------------------------------------
(* Properties.  They are stated on the last dispatch: `pre` is the event   *)
(* list it was entered with, `events` the list it left.                    *)

LastPool(topic) == last.kind = "pool" /\ last.log.topic0 = topic

LastGauge(topic) == last.kind = "gauge" /\ last.log.topic0 = topic

\* the event of identity pre[i].id as the dispatch left it
After(i) == ById(events, pre[i].id)

IdsOf(evs) == [i \in 1..Len(evs) |-> evs[i].id]

\* the semantic fields and the order of every event are as on entry
NothingMutated ==
    /\ IdsOf(events) = IdsOf(pre)
    /\ \A i \in 1..Len(pre) :
         /\ events[i].event_type = pre[i].event_type
         /\ events[i].event_subtype = pre[i].event_subtype
         /\ events[i].counterparty = pre[i].counterparty
         /\ events[i].notes = pre[i].notes

SpendCandidates(evs) ==
    {i \in 1..Len(evs) : IsSpendNone(evs[i]) /\ evs[i].address \in pools \cup {ROUTER}}

ReceiveCandidates(evs) ==
    {i \in 1..Len(evs) : IsReceiveNone(evs[i]) /\ evs[i].address \in pools \cup {ROUTER}}

\* C1: a SWAP dispatch whose event list lacks a spend candidate or a receive
\* candidate mutates no event: type, subtype, counterparty and notes of every
\* event and the order of the list are as before the dispatch.
C1_MissingLegMutatesNothing ==
    (LastPool(SWAP) /\ (SpendCandidates(pre) = {} \/ ReceiveCandidates(pre) = {}))
        => NothingMutated

\* C2: after a SWAP dispatch that found both legs, the spend leg is at the
\* index right before the receive leg, and the other events are in the
\* relative order they had before the dispatch.
C2_SwapLegsAdjacent ==
    ( /\ LastPool(SWAP)
      /\ ~last.raised
      /\ last.legs.spend_event # NoEvent
      /\ last.legs.receive_event # NoEvent )
        => LET s == last.legs.spend_event
               r == last.legs.receive_event
           IN /\ IndexOf(events, s) >= 1
              /\ IndexOf(events, r) = IndexOf(events, s) + 1
              /\ ById(events, s).event_type = "TRADE"
              /\ ById(events, s).event_subtype = "SPEND"
              /\ ById(events, r).event_type = "TRADE"
              /\ ById(events, r).event_subtype = "RECEIVE"
              /\ IdsOf(Without(events, {s, r})) = IdsOf(Without(pre, {s, r}))

\* C2 witness: both legs found, the receive leg upstream before the spend
\* leg, two other events around them.
C2_Witness ==
    /\ LastPool(SWAP)
    /\ ~last.raised
    /\ last.legs.spend_event # NoEvent
    /\ last.legs.receive_event # NoEvent
    /\ IndexOf(pre, last.legs.receive_event) < IndexOf(pre, last.legs.spend_event)
    /\ Len(pre) = 4
    /\ IndexOf(events, last.legs.spend_event) = 2

\* C4: a SWAP dispatch on a list with exactly one SPEND/NONE and exactly one
\* RECEIVE/NONE event, both addressed to a pool or the router, makes the
\* spend TRADE/SPEND and the receive TRADE/RECEIVE, both with the protocol
\* as counterparty and no product, and logs nothing.
C4_SwapReclassifiesPair ==
    ( /\ LastPool(SWAP)
      /\ ~last.raised
      /\ Cardinality({i \in 1..Len(pre) : IsSpendNone(pre[i])}) = 1
      /\ Cardinality({i \in 1..Len(pre) : IsReceiveNone(pre[i])}) = 1
      /\ Cardinality(SpendCandidates(pre)) = 1
      /\ Cardinality(ReceiveCandidates(pre)) = 1 )
        => /\ \A i \in SpendCandidates(pre) :
                /\ After(i).event_type = "TRADE"
                /\ After(i).event_subtype = "SPEND"
                /\ After(i).counterparty = CPT_AERODROME
                /\ After(i).product = None
           /\ \A i \in ReceiveCandidates(pre) :
                /\ After(i).event_type = "TRADE"
                /\ After(i).event_subtype = "RECEIVE"
                /\ After(i).counterparty = CPT_AERODROME
                /\ After(i).product = None
           /\ last.diagnostics = <<>>

\* C4 witness: the spend goes through the router, the receive comes from a
\* pool, and the log was emitted by another pool.
C4_Witness ==
    /\ LastPool(SWAP)
    /\ ~last.raised
    /\ Cardinality({i \in 1..Len(pre) : IsSpendNone(pre[i])}) = 1
    /\ Cardinality({i \in 1..Len(pre) : IsReceiveNone(pre[i])}) = 1
    /\ \E i \in SpendCandidates(pre), j \in ReceiveCandidates(pre) :
         /\ pre[i].address = ROUTER
         /\ pre[j].address \in pools
         /\ pre[j].address # last.log.address
         /\ After(i).event_type = "TRADE"

\* C10: a SWAP dispatch on a list without any candidate (the pair was
\* classified by an earlier SWAP dispatch) finds no leg, writes no event and
\* moves no event.
C10_SwapIdempotent ==
    (LastPool(SWAP) /\ SpendCandidates(pre) = {} /\ ReceiveCandidates(pre) = {})
        => /\ events = pre
           /\ last.touched = {}
           /\ last.legs = NoLegs

\* C10 witness: the list holds the adjacent TRADE pair of a first SWAP
\* dispatch when the second SWAP dispatch is entered.
C10_Witness ==
    /\ LastPool(SWAP)
    /\ SpendCandidates(pre) = {}
    /\ ReceiveCandidates(pre) = {}
    /\ \E i \in 1..(Len(pre) - 1) :
         /\ pre[i].event_type = "TRADE" /\ pre[i].event_subtype = "SPEND"
         /\ pre[i + 1].event_type = "TRADE" /\ pre[i + 1].event_subtype = "RECEIVE"
         /\ pre[i].counterparty = CPT_AERODROME
    /\ events = pre

\* C5: after an add-liquidity dispatch of a log emitted by a pool, every
\* event that was SPEND/NONE and addressed to that pool is
\* DEPOSIT/DEPOSIT_ASSET, every event that was RECEIVE/NONE from the zero
\* address is RECEIVE/RECEIVE_WRAPPED, and both carry the protocol as
\* counterparty and product POOL, however many there are and wherever.
C5_AddLiquidityReclassifiesAll ==
    (LastPool(ADD_LIQUIDITY_EVENT) /\ last.log.address \in pools /\ ~last.raised)
        => \A i \in 1..Len(pre) :
             /\ (IsSpendNone(pre[i]) /\ pre[i].address = last.log.address)
                  => /\ After(i).event_type = "DEPOSIT"
                     /\ After(i).event_subtype = "DEPOSIT_ASSET"
                     /\ After(i).counterparty = CPT_AERODROME
                     /\ After(i).product = PRODUCT_POOL
             /\ (IsReceiveNone(pre[i]) /\ pre[i].address = ZERO_ADDRESS)
                  => /\ After(i).event_type = "RECEIVE"
                     /\ After(i).event_subtype = "RECEIVE_WRAPPED"
                     /\ After(i).counterparty = CPT_AERODROME
                     /\ After(i).product = PRODUCT_POOL

\* C5 witness: two spends to the emitting pool with the minted LP tokens
\* between them, all three reclassified.
C5_Witness ==
    /\ LastPool(ADD_LIQUIDITY_EVENT)
    /\ ~last.raised
    /\ \E i, j, k \in 1..Len(pre) :
         /\ i < j /\ j < k
         /\ IsSpendNone(pre[i]) /\ pre[i].address = last.log.address
         /\ IsReceiveNone(pre[j]) /\ pre[j].address = ZERO_ADDRESS
         /\ IsSpendNone(pre[k]) /\ pre[k].address = last.log.address
         /\ After(i).event_type = "DEPOSIT"
         /\ After(j).event_subtype = "RECEIVE_WRAPPED"
         /\ After(k).event_type = "DEPOSIT"

\* C6: after a remove-liquidity dispatch, every event that was SPEND/NONE
\* with a pool address is SPEND/RETURN_WRAPPED, every event that was
\* RECEIVE/NONE with a pool address is WITHDRAWAL/REMOVE_ASSET, and both
\* carry the protocol as counterparty and product POOL.
C6_RemoveLiquidityReclassifiesAll ==
    (LastPool(REMOVE_LIQUIDITY_EVENT) /\ ~last.raised)
        => \A i \in 1..Len(pre) :
             /\ (IsSpendNone(pre[i]) /\ pre[i].address \in pools)
                  => /\ After(i).event_type = "SPEND"
                     /\ After(i).event_subtype = "RETURN_WRAPPED"
                     /\ After(i).counterparty = CPT_AERODROME
                     /\ After(i).product = PRODUCT_POOL
             /\ (IsReceiveNone(pre[i]) /\ pre[i].address \in pools)
                  => /\ After(i).event_type = "WITHDRAWAL"
                     /\ After(i).event_subtype = "REMOVE_ASSET"
                     /\ After(i).counterparty = CPT_AERODROME
                     /\ After(i).product = PRODUCT_POOL

\* C6 witness: the LP tokens returned and two assets received from a pool,
\* both receives ending as WITHDRAWAL legs.
C6_Witness ==
    /\ LastPool(REMOVE_LIQUIDITY_EVENT)
    /\ ~last.raised
    /\ \E i, j, k \in 1..Len(pre) :
         /\ j # k
         /\ IsSpendNone(pre[i]) /\ pre[i].address \in pools
         /\ IsReceiveNone(pre[j]) /\ pre[j].address \in pools
         /\ IsReceiveNone(pre[k]) /\ pre[k].address \in pools
         /\ After(i).event_subtype = "RETURN_WRAPPED"
         /\ After(j).event_type = "WITHDRAWAL"
         /\ After(k).event_type = "WITHDRAWAL"

\* C3: over any sequence of dispatches (none of which raised), an event is
\* reclassified at most once: a dispatch changes the event_type and
\* event_subtype of no event that it found already reclassified, that is,
\* with a shape other than SPEND/NONE and RECEIVE/NONE.
C3_ReclassifiedAtMostOnce ==
    last.no_error_so_far
        => \A i \in 1..Len(pre) :
             (~IsSpendNone(pre[i]) /\ ~IsReceiveNone(pre[i]))
                => /\ After(i).event_type = pre[i].event_type
                   /\ After(i).event_subtype = pre[i].event_subtype

\* the triple of the claim, with the normalization written out: the event's
\* amount (in hundredths) is the raw amount divided by 10^decimals
TripleMatches(e) ==
    /\ e.location_label = last.log.account
    /\ e.address = last.log.address
    /\ e.amount * Pow10(Decimals(e.asset)) = last.log.raw_amount * 100

LastGaugeTopic == last.kind = "gauge" /\ last.log.topic0 \in GAUGE_TOPICS

\* C7: after a GAUGE_DEPOSIT, GAUGE_WITHDRAW or CLAIM_REWARDS dispatch, every
\* event whose (location_label, address, amount) is (account, gauge,
\* normalized raw amount) carries the protocol as counterparty, product GAUGE
\* and DEPOSIT/DEPOSIT_ASSET, WITHDRAWAL/REMOVE_ASSET or WITHDRAWAL/REWARD.
C7_GaugeReclassifiesAllMatches ==
    (LastGaugeTopic /\ ~last.raised)
        => \A i \in 1..Len(pre) :
             TripleMatches(pre[i])
                => /\ After(i).counterparty = CPT_AERODROME
                   /\ After(i).product = PRODUCT_GAUGE
                   /\ last.log.topic0 = GAUGE_DEPOSIT
                        => /\ After(i).event_type = "DEPOSIT"
                           /\ After(i).event_subtype = "DEPOSIT_ASSET"
                   /\ last.log.topic0 = GAUGE_WITHDRAW
                        => /\ After(i).event_type = "WITHDRAWAL"
                           /\ After(i).event_subtype = "REMOVE_ASSET"
                   /\ last.log.topic0 = CLAIM_REWARDS
                        => /\ After(i).event_type = "WITHDRAWAL"
                           /\ After(i).event_subtype = "REWARD"

\* C7 witness: a CLAIM_REWARDS log matched by two events of different assets,
\* both reclassified.
C7_Witness ==
    /\ LastGauge(CLAIM_REWARDS)
    /\ ~last.raised
    /\ \E i, j \in 1..Len(pre) :
         /\ i # j
         /\ pre[i].asset # pre[j].asset
         /\ TripleMatches(pre[i])
         /\ TripleMatches(pre[j])
         /\ After(i).event_subtype = "REWARD"
         /\ After(j).event_subtype = "REWARD"

C9_GaugeExactMatchOnly ==
    LastGaugeTopic
        => \A i \in 1..Len(pre) :
             ~TripleMatches(pre[i])
                => /\ After(i) = pre[i]
                   /\ pre[i].id \notin last.touched

\* C9 witness: one event matches and is reclassified while an event of the
\* same account and gauge with another normalized amount, one of another
\* account and one of another address are left alone.
C9_Witness ==
    /\ LastGaugeTopic
    /\ \E i, j, k, l \in 1..Len(pre) :
         /\ TripleMatches(pre[i]) /\ After(i) # pre[i]
         /\ pre[j].location_label = last.log.account
         /\ pre[j].address = last.log.address
         /\ ~TripleMatches(pre[j]) /\ After(j) = pre[j]
         /\ pre[k].location_label # last.log.account
         /\ pre[k].address = last.log.address
         /\ pre[k].amount = pre[i].amount /\ After(k) = pre[k]
         /\ pre[l].location_label = last.log.account
         /\ pre[l].address # last.log.address
         /\ pre[l].amount = pre[i].amount /\ After(l) = pre[l]

----------------------------------------------------------------------------
(* The missing leg of a swap *)

AllResolve(evs) == \A i \in 1..Len(evs) : ResolvesToCryptoAsset(evs[i].asset)

\* identity of the last event of evs at an index of the set, NoEvent when the
\* set is empty
LastOf(evs, indices) ==
    IF indices = {} THEN NoEvent
    ELSE evs[CHOOSE i \in indices : \A j \in indices : j <= i].id

\* C11: a SWAP dispatch on a list that lacks a spend candidate or a receive
\* candidate (every asset resolving) raises nothing, logs exactly one
\* diagnostic that carries the transaction hash and the leg found (if any),
\* returns the default output, and leaves the next dispatch enabled.
C11_MissingLegRecoverable ==
    ( /\ LastPool(SWAP)
      /\ AllResolve(pre)
      /\ (SpendCandidates(pre) = {} \/ ReceiveCandidates(pre) = {}) )
        => /\ ~last.raised
           /\ Len(last.diagnostics) = 1
           /\ last.diagnostics[1].tx_hash = TX_HASH
           /\ last.diagnostics[1].spend_event = LastOf(pre, SpendCandidates(pre))
           /\ last.diagnostics[1].receive_event = LastOf(pre, ReceiveCandidates(pre))
           /\ last.output = DEFAULT_DECODING_OUTPUT
           /\ ~last.output.refresh_balances
           /\ (ndispatch < MaxDispatches) => ENABLED Next

\* C11 witness: a spend leg was found and the receive leg was not, the
\* diagnostic names the spend leg, and a further dispatch can follow.
C11_Witness ==
    /\ LastPool(SWAP)
    /\ SpendCandidates(pre) # {}
    /\ ReceiveCandidates(pre) = {}
    /\ Len(last.diagnostics) = 1
    /\ last.diagnostics[1].spend_event # NoEvent
    /\ last.diagnostics[1].receive_event = NoEvent
    /\ ~last.raised
    /\ ndispatch < MaxDispatches
    /\ ENABLED Next

----------------------------------------------------------------------------
(* Protocol tags of the tokens: add-liquidity and GAUGE_DEPOSIT dispatches  *)
(* over token metadata that may already carry a tag                         *)

\* longest event list of a transaction of SpecTags
MaxEventsTags == 2

\* Events that reach set_token_protocol_if_missing (a token received from
\* the zero address, a token moved at the gauge by the account) and events
\* that do not (the native asset from the zero address, a spend to a pool).
TagEvents ==
    { RawEvent("RECEIVE", "NONE", LP_TOKEN, 7, USER_A, ZERO_ADDRESS, None),
      RawEvent("RECEIVE", "NONE", A_USDBC, 10, USER_A, ZERO_ADDRESS, None),
      RawEvent("SPEND", "NONE", LP_TOKEN, 10, USER_A, GAUGE_A, None),
      RawEvent("RECEIVE", "NONE", A_USDBC, 10, USER_A, GAUGE_A, None),
      RawEvent("RECEIVE", "NONE", A_ETH, 10, USER_A, ZERO_ADDRESS, None),
      RawEvent("SPEND", "NONE", A_USDBC, 20, USER_A, POOL_A, None) }

\* the protocol field of a token when the decoder starts: unset, this
\* protocol's tag, or another protocol's
ProtocolTags == {None, AERODROME_POOL_PROTOCOL, OTHER_PROTOCOL}

InitTags ==
    /\ pools = CachedPools
    /\ gauges = CachedGauges
    /\ protocol_addresses = {ROUTER} \cup CachedPools
    /\ RegistryIdle
    /\ token_protocol \in [EvmTokens -> ProtocolTags]
    /\ events \in {WithIds(s) : s \in SeqsUpTo(TagEvents, MaxEventsTags)}
    /\ pre = events
    /\ last = [NoDispatch EXCEPT !.tags_before = token_protocol]
    /\ ndispatch = 0

NextTags ==
    \/ DecodeAddLiquidity
    \/ DecodeGaugeDeposit

SpecTags == InitTags /\ [][NextTags]_vars

\* C12: over add-liquidity and GAUGE_DEPOSIT dispatches, a token whose
\* protocol tag was set before a dispatch has the same tag after it; a tag
\* that changed was unset, is now the pool protocol, and belongs to a token
\* the handler called set_token_protocol_if_missing for; and every such
\* token that was untagged is tagged with the pool protocol.
C12_ProtocolTagWriteOnce ==
    \A t \in EvmTokens :
        /\ last.tags_before[t] # None => token_protocol[t] = last.tags_before[t]
        /\ token_protocol[t] # last.tags_before[t]
              => /\ last.tags_before[t] = None
                 /\ token_protocol[t] = AERODROME_POOL_PROTOCOL
                 /\ t \in last.tagged
        /\ (t \in last.tagged /\ last.tags_before[t] = None)
              => token_protocol[t] = AERODROME_POOL_PROTOCOL

\* C12 witness: one add-liquidity dispatch reached the tagging call for two
\* tokens received from the zero address; the one carrying another
\* protocol's tag kept it, the untagged one got the pool protocol.
C12_Witness ==
    /\ LastPool(ADD_LIQUIDITY_EVENT)
    /\ last.tagged = {LP_TOKEN, A_USDBC}
    /\ last.tags_before[LP_TOKEN] = OTHER_PROTOCOL
    /\ token_protocol[LP_TOKEN] = OTHER_PROTOCOL
    /\ last.tags_before[A_USDBC] = None
    /\ token_protocol[A_USDBC] = AERODROME_POOL_PROTOCOL

----------------------------------------------------------------------------
(* addresses_to_decoders: the handler of each registered address, and the  *)
(* dispatch of a log by its emitter                                        *)

\* the mapping built from self.pools, then updated with self.gauges
addresses_to_decoders ==
    [a \in pools \cup gauges |-> IF a \in gauges THEN "gauge" ELSE "pool"]

\* the outcomes of the handler addresses_to_decoders gives the log's emitter
HandlerOutcomes(log, evs) ==
    IF addresses_to_decoders[log.address] = "pool"
    THEN decode_pool_events(log, evs)
    ELSE {decode_gauge_events(log, evs)}

\* the six signatures and a first topic that is none of them
AllTopics ==
    {ADD_LIQUIDITY_EVENT, REMOVE_LIQUIDITY_EVENT, SWAP,
     GAUGE_DEPOSIT, GAUGE_WITHDRAW, CLAIM_REWARDS, OTHER_TOPIC}

POOL_TOPICS == {REMOVE_LIQUIDITY_EVENT, ADD_LIQUIDITY_EVENT, SWAP}

\* longest event list of a transaction of SpecPassThrough
MaxEventsPassThrough == 2

\* Events the recognized topics would reclassify: a swap (or liquidity) pair
\* at the pools, the LP tokens the account sent to the gauge; and an event
\* whose asset does not resolve.
PassThroughEvents ==
    { RawEvent("SPEND", "NONE", A_USDBC, 20, USER_A, POOL_A, None),
      RawEvent("RECEIVE", "NONE", A_USDBC, 50, USER_A, POOL_B, None),
      RawEvent("SPEND", "NONE", LP_TOKEN, 10, USER_A, GAUGE_A, None),
      RawEvent("RECEIVE", "NONE", A_UNKNOWN, 10, USER_A, POOL_A, None) }

\* logs of one pool and of the gauge with every first topic
EmitterLogs ==
    {Log(a, t, USER_A, 10) : a \in {POOL_A} \cup gauges, t \in AllTopics}

InitPassThrough ==
    /\ pools = CachedPools
    /\ gauges = CachedGauges
    /\ protocol_addresses = {ROUTER} \cup CachedPools
    /\ RegistryIdle
    /\ token_protocol = NoTags
    /\ events \in {WithIds(s) : s \in SeqsUpTo(PassThroughEvents, MaxEventsPassThrough)}
    /\ pre = events
    /\ last = NoDispatch
    /\ ndispatch = 0

\* a log of a pool with a first topic _decode_pool_events does not know
DecodePoolUnrecognized ==
    \E log \in EmitterLogs :
        /\ log.address \in pools
        /\ log.topic0 \notin POOL_TOPICS
        /\ \E out \in HandlerOutcomes(log, events) :
              Dispatch(addresses_to_decoders[log.address], log, out)

\* a log of a gauge with a first topic _decode_gauge_events does not know
DecodeGaugeUnrecognized ==
    \E log \in EmitterLogs :
        /\ log.address \in gauges
        /\ log.topic0 \notin GAUGE_TOPICS
        /\ \E out \in HandlerOutcomes(log, events) :
              Dispatch(addresses_to_decoders[log.address], log, out)

\* a log of a pool with one of the three pool topics
DecodePoolRecognized ==
    \E log \in EmitterLogs :
        /\ log.address \in pools
        /\ log.topic0 \in POOL_TOPICS
        /\ \E out \in HandlerOutcomes(log, events) :
              Dispatch(addresses_to_decoders[log.address], log, out)

\* a log of a gauge with one of the three gauge topics
DecodeGaugeRecognized ==
    \E log \in EmitterLogs :
        /\ log.address \in gauges
        /\ log.topic0 \in GAUGE_TOPICS
        /\ \E out \in HandlerOutcomes(log, events) :
              Dispatch(addresses_to_decoders[log.address], log, out)

NextPassThrough ==
    \/ DecodePoolUnrecognized
    \/ DecodeGaugeUnrecognized
    \/ DecodePoolRecognized
    \/ DecodeGaugeRecognized

SpecPassThrough == InitPassThrough /\ [][NextPassThrough]_vars

\* the last log's first topic is not one its emitter's handler recognizes
LastUnrecognized ==
    \/ last.kind = "pool" /\ last.log.address \in pools
          /\ last.log.topic0 \notin {ADD_LIQUIDITY_EVENT, REMOVE_LIQUIDITY_EVENT, SWAP}
    \/ last.kind = "gauge" /\ last.log.address \in gauges
          /\ last.log.topic0 \notin {GAUGE_DEPOSIT, GAUGE_WITHDRAW, CLAIM_REWARDS}

\* C13: a dispatch of a pool's log whose first topic is not one of the three
\* pool topics, or of a gauge's log whose first topic is not one of the
\* three gauge topics, leaves the event list as it was (every event, the
\* order), raises nothing, logs nothing, tags no token and returns the
\* default output.
C13_UnrecognizedTopicPassThrough ==
    LastUnrecognized
        => /\ events = pre
           /\ ~last.raised
           /\ last.output = DEFAULT_DECODING_OUTPUT
           /\ last.diagnostics = <<>>
           /\ last.touched = {}
           /\ token_protocol = last.tags_before

\* C13 witness: a gauge's log carrying the SWAP topic, dispatched on a list
\* holding the account's deposit at that gauge (which the log's account and
\* amount match) next to an event whose asset does not resolve.
C13_Witness ==
    /\ last.kind = "gauge"
    /\ last.log.address \in gauges
    /\ last.log.topic0 = SWAP
    /\ \E i, j \in 1..Len(pre) :
         /\ TripleMatches(pre[i]) /\ IsSpendNone(pre[i])
         /\ ~ResolvesToCryptoAsset(pre[j].asset)
    /\ events = pre
    /\ ~last.raised

----------------------------------------------------------------------------
(* The refresh of the address registry                                      *)
(*                                                                          *)
(* ensure_fresh, under the refresh lock of the cache key: check whether the *)
(* cache is fresh; if it is, return; if not, query the remote source        *)
(* (blocking, the lock held), and either replace pools, gauges and the      *)
(* persisted cache by the result as one unit and mark the cache fresh, or   *)
(* pass the query's error to the caller.  The decoder assigns               *)
(* protocol_addresses in its constructor only.                              *)

\* ensure_fresh calls of one run of SpecRegistry
MaxRefreshCalls == 3

POOL_C == "POOL_C"
GAUGE_B == "GAUGE_B"

\* what the remote source may return: a pool and a gauge added; a pool and
\* a gauge replaced
RemoteResults ==
    { Addresses({POOL_A, POOL_B, POOL_C}, {GAUGE_A, GAUGE_B}),
      Addresses({POOL_A, POOL_C}, {GAUGE_B}) }

\* LockFree with the lock left out: a caller enters whoever holds it
LockFree_NotTaken(holder) == TRUE

\* the refresh lock of the cache key is free
LockFree(holder) == holder = None

\* ShouldQuery without the freshness check: every call queries
ShouldQuery_Always(is_fresh) == TRUE

\* the staleness check of ensure_fresh
ShouldQuery(is_fresh) == ~is_fresh

\* the address sets after a successful query
ReplaceAsUnit(current, result) == result

\* OnQueryFailure with a fallback: the error is swallowed, the registry
\* emptied and the call reported as done
OnQueryFailure_FallsBack(current) ==
    [addresses |-> Addresses({}, {}), result |-> "refreshed"]

\* the address sets and the caller's result after a failed query
OnQueryFailure(current) ==
    [addresses |-> current, result |-> "RemoteError"]

\* ensure_fresh is entered by a caller c: the lock is taken, the freshness
\* checked; a fresh cache ends the call at once
EnsureFreshBegin ==
    \E c \in Callers :
        /\ callers[c].pc = "idle"
        /\ ncalls < MaxRefreshCalls
        /\ LockFree(lock)
        /\ ncalls' = ncalls + 1
        /\ IF ShouldQuery(fresh)
           THEN /\ lock' = c
                /\ callers' = [callers EXCEPT ![c] =
                                  [pc |-> "querying", query |-> "sent", result |-> None]]
                /\ nqueries' = nqueries + 1
           ELSE /\ lock' = lock
                /\ callers' = [callers EXCEPT ![c] =
                                  [pc |-> "returned", query |-> None, result |-> "fresh"]]
                /\ nqueries' = nqueries
        /\ UNCHANGED <<pools, gauges, protocol_addresses, cache, fresh, observed>>
        /\ UNCHANGED decoding_vars

\* the remote query of a caller c returns: the sets and the persisted cache
\* are replaced, the cache is fresh, the lock released
QuerySucceeds ==
    \E c \in Callers :
        /\ callers[c].pc = "querying"
        /\ \E result \in RemoteResults :
              LET new == ReplaceAsUnit(Addresses(pools, gauges), result)
              IN /\ pools' = new.pools
                 /\ gauges' = new.gauges
                 /\ cache' = new
        /\ fresh' = TRUE
        /\ lock' = IF lock = c THEN None ELSE lock
        /\ callers' = [callers EXCEPT ![c] =
                          [pc |-> "returned", query |-> "answered", result |-> "refreshed"]]
        /\ UNCHANGED <<protocol_addresses, observed, ncalls, nqueries>>
        /\ UNCHANGED decoding_vars

\* the remote query of a caller c fails
QueryFails ==
    \E c \in Callers :
        /\ callers[c].pc = "querying"
        /\ LET after == OnQueryFailure(Addresses(pools, gauges))
           IN /\ pools' = after.addresses.pools
              /\ gauges' = after.addresses.gauges
              /\ cache' = IF after.addresses = Addresses(pools, gauges)
                          THEN cache ELSE after.addresses
              /\ fresh' = (fresh \/ after.result # "RemoteError")
              /\ callers' = [callers EXCEPT ![c] =
                                [pc |-> IF after.result = "RemoteError"
                                        THEN "failed" ELSE "returned",
                                 query |-> "failed", result |-> after.result]]
        /\ lock' = IF lock = c THEN None ELSE lock
        /\ UNCHANGED <<protocol_addresses, observed, ncalls, nqueries>>
        /\ UNCHANGED decoding_vars

\* a caller c has its result (or error) and is ready to call again
CallerDone ==
    \E c \in Callers :
        /\ callers[c].pc \in {"returned", "failed"}
        /\ callers' = [callers EXCEPT ![c] = Idle]
        /\ UNCHANGED <<pools, gauges, protocol_addresses, cache, fresh, lock,
                       observed, ncalls, nqueries>>
        /\ UNCHANGED decoding_vars

\* the cache of the cache type expires
CacheExpires ==
    /\ fresh
    /\ fresh' = FALSE
    /\ UNCHANGED <<pools, gauges, protocol_addresses, cache, lock, callers,
                   observed, ncalls, nqueries>>
    /\ UNCHANGED decoding_vars

\* a reader (addresses_to_decoders) reads self.pools and self.gauges
ReadAddresses ==
    /\ observed' = Addresses(pools, gauges)
    /\ observed' # observed
    /\ UNCHANGED <<pools, gauges, protocol_addresses, cache, fresh, lock,
                   callers, ncalls, nqueries>>
    /\ UNCHANGED decoding_vars

\* a swap through a pool the remote source adds, and its receive leg
RegistryEvents ==
    <<RawEvent("SPEND", "NONE", A_USDBC, 20, USER_A, POOL_C, None),
      RawEvent("RECEIVE", "NONE", A_ETH, 10, USER_A, POOL_A, None)>>

InitRegistry ==
    /\ pools = CachedPools
    /\ gauges = CachedGauges
    /\ protocol_addresses = {ROUTER} \cup CachedPools
    /\ cache = Addresses(CachedPools, CachedGauges)
    /\ fresh \in BOOLEAN
    /\ lock = None
    /\ callers = [c \in Callers |-> Idle]
    /\ observed = Addresses(CachedPools, CachedGauges)
    /\ ncalls = 0
    /\ nqueries = 0
    /\ token_protocol = NoTags
    /\ events = WithIds(RegistryEvents)
    /\ pre = events
    /\ last = NoDispatch
    /\ ndispatch = 0

NextRegistry ==
    \/ EnsureFreshBegin
    \/ QuerySucceeds
    \/ QueryFails
    \/ CallerDone
    \/ CacheExpires
    \/ ReadAddresses
    \/ DecodeSwap

SpecRegistry == InitRegistry /\ [][NextRegistry]_vars

\* C14: while the registry is fresh, no step begins a remote query or
\* changes pools, gauges or the persisted cache, and an ensure_fresh call
\* entered then returns at once, however many such calls are made.
C14_EnsureFreshIdempotent ==
    [][fresh =>
         /\ nqueries' = nqueries
         /\ pools' = pools
         /\ gauges' = gauges
         /\ cache' = cache
         /\ \A c \in Callers :
              (callers[c].pc = "idle" /\ callers'[c].pc # "idle")
                 => /\ callers'[c].pc = "returned"
                    /\ callers'[c].result = "fresh"]_vars

\* C14 witness: after one refresh (a single remote query), the third
\* ensure_fresh call has returned on the fresh registry without a query.
C14_Witness ==
    /\ fresh
    /\ ncalls = 3
    /\ nqueries = 1
    /\ cache = Addresses(pools, gauges)
    /\ cache # Addresses(CachedPools, CachedGauges)
    /\ \E c \in Callers : callers[c].pc = "returned" /\ callers[c].result = "fresh"

----------------------------------------------------------------------------
(* Several candidates for one leg of a swap *)

\* C15: a SWAP dispatch reclassifies at most one spend and at most one
\* receive event: of the SPEND/NONE events addressed to a protocol address
\* at most one ends TRADE/SPEND, of the RECEIVE/NONE ones at most one ends
\* TRADE/RECEIVE, and every other such event keeps its type and subtype.
\* (Stated for the dispatches that found both legs, where a reclassification
\* is due.)
C15_SwapReclassifiesAtMostOnePerLeg ==
    ( /\ LastPool(SWAP)
      /\ ~last.raised
      /\ last.legs.spend_event # NoEvent
      /\ last.legs.receive_event # NoEvent )
        => LET spends == {i \in 1..Len(pre) :
                            IsSpendNone(pre[i]) /\ pre[i].address \in protocol_addresses}
               receives == {i \in 1..Len(pre) :
                            IsReceiveNone(pre[i]) /\ pre[i].address \in protocol_addresses}
               traded(S) == {i \in S : After(i).event_type = "TRADE"}
           IN /\ Cardinality(traded(spends)) <= 1
              /\ Cardinality(traded(receives)) <= 1
              /\ \A i \in (spends \cup receives) \ (traded(spends) \cup traded(receives)) :
                   /\ After(i).event_type = pre[i].event_type
                   /\ After(i).event_subtype = pre[i].event_subtype

----------------------------------------------------------------------------
(* protocol_addresses and the refreshed pools *)

\* C16: in every reachable state protocol_addresses is pools with the
\* router, also after a refresh replaced pools; and a SWAP dispatch whose
\* list holds a SPEND/NONE and a RECEIVE/NONE event addressed to a pool of
\* the registry (or the router) finds both legs.
C16_ProtocolAddressesFollowPools ==
    /\ protocol_addresses = pools \cup {ROUTER}
    /\ ( /\ LastPool(SWAP)
         /\ AllResolve(pre)
         /\ SpendCandidates(pre) # {}
         /\ ReceiveCandidates(pre) # {} )
           => /\ last.legs.spend_event # NoEvent
              /\ last.legs.receive_event # NoEvent
              /\ last.diagnostics = <<>>

----------------------------------------------------------------------------
(* Assets that do not resolve, in the four handlers *)

\* longest event list of a transaction of SpecAssets
MaxEventsAssets == 3

\* Events that match a handler and resolve (a spend to a pool, a receive
\* from a pool, the LP tokens sent to the gauge), an event of an unknown
\* asset, and events of the native asset where a handler needs an EVM token
\* (received from the zero address, received from the gauge).
AssetEvents ==
    { RawEvent("SPEND", "NONE", A_USDBC, 20, USER_A, POOL_A, None),
      RawEvent("RECEIVE", "NONE", A_UNKNOWN, 10, USER_A, POOL_A, None),
      RawEvent("RECEIVE", "NONE", A_ETH, 10, USER_A, ZERO_ADDRESS, None),
      RawEvent("SPEND", "NONE", LP_TOKEN, 10, USER_A, GAUGE_A, None),
      RawEvent("RECEIVE", "NONE", A_ETH, 10, USER_A, GAUGE_A, None),
      RawEvent("RECEIVE", "NONE", A_USDBC, 50, USER_A, POOL_B, None) }

InitAssets ==
    /\ pools = CachedPools
    /\ gauges = CachedGauges
    /\ protocol_addresses = {ROUTER} \cup CachedPools
    /\ RegistryIdle
    /\ token_protocol = NoTags
    /\ events \in {WithIds(s) : s \in SeqsUpTo(AssetEvents, MaxEventsAssets)}
    /\ pre = events
    /\ last = NoDispatch
    /\ ndispatch = 0

NextAssets ==
    \/ DecodePoolRecognized
    \/ DecodeGaugeRecognized

SpecAssets == InitAssets /\ [][NextAssets]_vars

\* the last dispatch went to a handler that walks the events
LastWalks ==
    \/ last.kind = "pool" /\ last.log.topic0 \in POOL_TOPICS
    \/ last.kind = "gauge" /\ last.log.topic0 \in GAUGE_TOPICS

\* e satisfies the condition under which the handler of the last dispatch
\* reclassifies an event
MatchesLast(e) ==
    CASE LastPool(ADD_LIQUIDITY_EVENT) ->
            \/ IsSpendNone(e) /\ e.address \in pools
            \/ IsReceiveNone(e) /\ e.address = ZERO_ADDRESS
      [] LastPool(REMOVE_LIQUIDITY_EVENT) ->
            (IsSpendNone(e) \/ IsReceiveNone(e)) /\ e.address \in pools
      [] LastPool(SWAP) ->
            (IsSpendNone(e) \/ IsReceiveNone(e)) /\ e.address \in protocol_addresses
      [] OTHER -> LastGaugeTopic /\ TripleMatches(e)

\* the handler of the last dispatch resolves the asset of e to an EVM token
\* (to tag it) once e is reclassified
NeedsEvmToken(e) ==
    \/ LastPool(ADD_LIQUIDITY_EVENT)
          /\ ~(IsSpendNone(e) /\ e.address \in pools)
          /\ IsReceiveNone(e) /\ e.address = ZERO_ADDRESS
    \/ LastGauge(GAUGE_DEPOSIT) /\ TripleMatches(e)

\* the asset of e is unknown or of the wrong kind for the last dispatch
Unresolvable(e) ==
    \/ ~ResolvesToCryptoAsset(e.asset)
    \/ NeedsEvmToken(e) /\ ~ResolvesToEvmToken(e.asset)

\* position of the first event of pre the walk cannot resolve (0: none)
FirstUnresolvable ==
    IF \E i \in 1..Len(pre) : Unresolvable(pre[i])
    THEN CHOOSE i \in 1..Len(pre) :
            Unresolvable(pre[i]) /\ \A j \in 1..(i - 1) : ~Unresolvable(pre[j])
    ELSE 0

\* the event at position i was written by the last dispatch and carries a
\* classification of the protocol
ReclassifiedAt(i) ==
    /\ events[i].id = pre[i].id
    /\ pre[i].id \in last.touched
    /\ events[i].counterparty = CPT_AERODROME
    /\ ~IsSpendNone(events[i]) /\ ~IsReceiveNone(events[i])

\* the event at position i was not written by the last dispatch
UntouchedAt(i) == events[i] = pre[i] /\ pre[i].id \notin last.touched

\* the events before position k: the matching ones reclassified, the others
\* as they were; the events after k as they were
AroundUnresolvable(k) ==
    /\ Len(events) = Len(pre)
    /\ \A i \in 1..(k - 1) :
         IF MatchesLast(pre[i]) THEN ReclassifiedAt(i) ELSE UntouchedAt(i)
    /\ \A i \in (k + 1)..Len(pre) : UntouchedAt(i)

\* C17 as claimed: when the walk of a handler reaches an event whose asset
\* is unknown or of the wrong kind, the dispatch raises, the events at and
\* after that position are as before, and the matching events before it are
\* reclassified.
C17_UnresolvableAssetAborts_AsClaimed ==
    (LastWalks /\ FirstUnresolvable # 0)
        => /\ last.raised
           /\ AroundUnresolvable(FirstUnresolvable)
           /\ UntouchedAt(FirstUnresolvable)

\* C17 (amended): when the walk of a handler reaches an event whose asset
\* is unknown or of the wrong kind, the dispatch raises, returns nothing,
\* the events after that position are as before and the matching events
\* before it are reclassified; the event at that position is as before when
\* its asset does not resolve to a crypto asset, and is already reclassified
\* when its asset only fails to resolve to the EVM token the handler tags.
C17_UnresolvableAssetAborts ==
    (LastWalks /\ FirstUnresolvable # 0)
        => LET k == FirstUnresolvable
           IN /\ last.raised
              /\ ~last.output.refresh_balances
              /\ last.diagnostics = <<>>
              /\ AroundUnresolvable(k)
              /\ ~ResolvesToCryptoAsset(pre[k].asset) => UntouchedAt(k)
              /\ ResolvesToCryptoAsset(pre[k].asset)
                    => /\ ReclassifiedAt(k)
                       /\ pre[k].asset \notin last.tagged

\* C17 witness: a remove-liquidity dispatch on a spend to a pool, an event
\* of an unknown asset and a receive from a pool: the first is reclassified,
\* the other two are as before, and the dispatch raised.
C17_Witness ==
    /\ LastPool(REMOVE_LIQUIDITY_EVENT)
    /\ last.raised
    /\ Len(pre) = 3
    /\ FirstUnresolvable = 2
    /\ MatchesLast(pre[1]) /\ events[1].event_subtype = "RETURN_WRAPPED"
    /\ MatchesLast(pre[2]) /\ UntouchedAt(2)
    /\ MatchesLast(pre[3]) /\ IsReceiveNone(pre[3]) /\ UntouchedAt(3)

----------------------------------------------------------------------------
(* The liquidity handlers and the events they do not match *)

\* the approval of the router to spend the token, decoded upstream
ApproveEvent == RawEvent("INFORMATIONAL", "APPROVE", A_USDBC, 20, USER_A, ROUTER, None)

\* the events of PoolEvents and the approval
LiquidityEvents == PoolEvents \cup {ApproveEvent}

InitLiquidity == InitWith(LiquidityEvents, MaxEvents)

NextLiquidity ==
    \/ DecodeAddLiquidity
    \/ DecodeRemoveLiquidity

SpecLiquidity == InitLiquidity /\ [][NextLiquidity]_vars

LastLiquidity == LastPool(ADD_LIQUIDITY_EVENT) \/ LastPool(REMOVE_LIQUIDITY_EVENT)

\* a gas fee, an approval, or a SPEND/NONE event addressed to the router
Bystander(e) ==
    \/ e.event_type = "SPEND" /\ e.event_subtype = "FEE"
    \/ e.event_type = "INFORMATIONAL" /\ e.event_subtype = "APPROVE"
    \/ IsSpendNone(e) /\ e.address = ROUTER

\* C18: an add-liquidity or remove-liquidity dispatch leaves the list with
\* the same events at the same indices (none created, deleted or moved);
\* every event that does not match the handler's conditions keeps all its
\* fields, among them the gas fee, an approval and a SPEND/NONE event
\* addressed to the router.
C18_LiquidityFrame ==
    LastLiquidity
        => /\ IdsOf(events) = IdsOf(pre)
           /\ \A i \in 1..Len(pre) :
                /\ ~MatchesLast(pre[i]) => events[i] = pre[i]
                /\ Bystander(pre[i]) => events[i] = pre[i]
                /\ events[i] # pre[i] => pre[i].id \in last.touched

\* C18 witness: an add-liquidity dispatch on the gas fee, the approval, a
\* spend through the router and a spend to a pool: the first three are as
\* before, the fourth is the deposit.
C18_Witness ==
    /\ LastPool(ADD_LIQUIDITY_EVENT)
    /\ Len(pre) = 4
    /\ pre[1].event_subtype = "FEE" /\ events[1] = pre[1]
    /\ pre[2].event_subtype = "APPROVE" /\ events[2] = pre[2]
    /\ IsSpendNone(pre[3]) /\ pre[3].address = ROUTER /\ events[3] = pre[3]
    /\ IsSpendNone(pre[4]) /\ pre[4].address \in pools
    /\ events[4].event_type = "DEPOSIT" /\ events[4].id = pre[4].id

----------------------------------------------------------------------------
(* Concurrent refreshes, readers, and a failing remote query *)

\* the pairs of address sets that come from one source: the persisted cache
\* read at construction, or one result of the remote query
Versions == {Addresses(CachedPools, CachedGauges)} \cup RemoteResults

Querying == {c \in Callers : callers[c].pc = "querying"}

\* C19: under every interleaving of ensure_fresh calls and readers, at most
\* one remote query is in flight for the cache key (its caller holding the
\* lock), and pools and gauges, as they are and as a reader read them, are
\* one pair of one source: the cached pair or one query result, never the
\* pools of one and the gauges of another.
C19_RefreshSingleWriterWholePairs ==
    /\ Cardinality(Querying) <= 1
    /\ \A c \in Querying : lock = c
    /\ Addresses(pools, gauges) \in Versions
    /\ observed \in Versions
    /\ cache = Addresses(pools, gauges)

\* C19 witness: a second remote query is in flight while the other caller
\* is outside ensure_fresh, and a reader has read the pair the first query
\* returned.
C19_Witness ==
    /\ Cardinality(Querying) = 1
    /\ nqueries = 2
    /\ \E c \in Callers : callers[c].pc = "idle"
    /\ observed \in RemoteResults
    /\ observed = Addresses(pools, gauges)

\* C20: the step in which the remote query of a caller fails gives that
\* caller the error and leaves pools, gauges, the persisted cache, the
\* freshness and protocol_addresses as they were.
C20_FailedQueryLeavesRegistry ==
    [][\A c \in Callers :
          (callers[c].pc = "querying" /\ callers'[c].query = "failed")
             => /\ callers'[c].pc = "failed"
                /\ callers'[c].result = "RemoteError"
                /\ pools' = pools
                /\ gauges' = gauges
                /\ cache' = cache
                /\ fresh' = fresh
                /\ protocol_addresses' = protocol_addresses]_vars

\* C20 witness: a caller holds the error of its failed query, the registry
\* still is the stale pair an earlier refresh had put in place.
C20_Witness ==
    /\ \E c \in Callers :
         /\ callers[c].pc = "failed"
         /\ callers[c].query = "failed"
         /\ callers[c].result = "RemoteError"
    /\ ~fresh
    /\ nqueries = 2
    /\ Addresses(pools, gauges) \in RemoteResults
    /\ cache = Addresses(pools, gauges)

----------------------------------------------------------------------------
(* Dispatch order of the pool logs (C21)                                   *)
(*                                                                         *)
(* The three pool handlers test the same shape, SPEND/NONE, and each       *)
(* writes a type or subtype that no longer has it; the walks differ only   *)
(* in what they write (lines 98-99, 131, 158-159).                         *)

\* what the handler of a pool topic makes of a SPEND/NONE event at a pool
SpendClassOf(topic) ==
    CASE topic = SWAP -> <<"TRADE", "SPEND">>
      [] topic = ADD_LIQUIDITY_EVENT -> <<"DEPOSIT", "DEPOSIT_ASSET">>
      [] topic = REMOVE_LIQUIDITY_EVENT -> <<"SPEND", "RETURN_WRAPPED">>

ClassOf(e) == <<e.event_type, e.event_subtype>>

\* e is a spend to a pool that a pool handler has classified
PoolClassified(e) ==
    /\ e.address \in pools
    /\ e.counterparty = CPT_AERODROME
    /\ ClassOf(e) \in {SpendClassOf(t) : t \in POOL_TOPICS}

\* C21: a SPEND/NONE event addressed to a pool is classified by the first
\* swap, add-liquidity or remove-liquidity log dispatched (TRADE/SPEND,
\* DEPOSIT/DEPOSIT_ASSET or SPEND/RETURN_WRAPPED, when the dispatch returns),
\* and an event a pool handler has classified is left as it is by every
\* later pool dispatch, whatever its topic.
C21_FirstPoolDispatchFixesClass ==
    last.kind = "pool" =>
        \A i \in 1..Len(pre) :
            LET e == pre[i]
                f == ById(events, e.id)
            IN /\ IndexOf(events, e.id) # 0
               /\ (/\ IsSpendNone(e) /\ e.address \in pools
                   /\ last.log.topic0 \in POOL_TOPICS
                   /\ ~last.raised)
                     => /\ ClassOf(f) = SpendClassOf(last.log.topic0)
                        /\ PoolClassified(f)
               /\ PoolClassified(e) => f = e

\* C21 witness: the add-liquidity log came first and made the spend a
\* deposit; the swap log dispatched after it reclassified another event
\* and left the deposit as it was.
C21_Witness ==
    /\ ndispatch = 2
    /\ LastPool(SWAP)
    /\ ~last.raised
    /\ last.touched # {}
    /\ \E i \in 1..Len(pre) :
         /\ PoolClassified(pre[i])
         /\ ClassOf(pre[i]) = SpendClassOf(ADD_LIQUIDITY_EVENT)
         /\ pre[i].id \notin last.touched
         /\ ById(events, pre[i].id) = pre[i]

----------------------------------------------------------------------------
(* The fields no handler writes (C22)                                      *)

\* the correlation keys of an event, with its identity
CorrelationKeys(e) ==
    [ id |-> e.id, asset |-> e.asset, amount |-> e.amount,
      location_label |-> e.location_label, address |-> e.address ]

\* the fields the handlers assign
WrittenFields(e) ==
    [ event_type |-> e.event_type, event_subtype |-> e.event_subtype,
      counterparty |-> e.counterparty, product |-> e.product, notes |-> e.notes ]

\* the events of evs as a set of their identities
IdSet(evs) == {evs[i].id : i \in 1..Len(evs)}

\* C22: a dispatch of any handler (add-liquidity, remove-liquidity, swap,
\* gauge, unknown topic; returning or raising) leaves the list with the same
\* events, none added or removed, and every event with the asset, amount,
\* location_label and address it had before the dispatch; an event whose
\* written fields are as before is wholly as before.  Holding for every
\* dispatch, the keys of an event after any sequence of dispatches are its
\* upstream ones.
C22_CorrelationKeysKept ==
    last.kind # None =>
        /\ Len(events) = Len(pre)
        /\ IdSet(events) = IdSet(pre)
        /\ Cardinality(IdSet(events)) = Len(events)
        /\ \A i \in 1..Len(pre) :
             /\ CorrelationKeys(After(i)) = CorrelationKeys(pre[i])
             /\ WrittenFields(After(i)) = WrittenFields(pre[i]) => After(i) = pre[i]

\* C22 witness: the second dispatch, a swap that found both legs, wrote
\* them and moved an event to another index, on a list in which the
\* dispatch before it had already reclassified an event.
C22_Witness ==
    /\ ndispatch = 2
    /\ LastPool(SWAP)
    /\ last.legs.spend_event # NoEvent /\ last.legs.receive_event # NoEvent
    /\ IdsOf(events) # IdsOf(pre)
    /\ \E i \in 1..Len(pre) :
         /\ pre[i].counterparty = CPT_AERODROME
         /\ pre[i].id \notin last.touched
    /\ \A i \in 1..Len(pre) : CorrelationKeys(After(i)) = CorrelationKeys(pre[i])

----------------------------------------------------------------------------
(* Who asks for a balance refresh (C23)                                    *)

\* the types the pool handlers reclassify into
PoolReclassifiedTypes == {"DEPOSIT", "WITHDRAWAL", "TRADE"}

\* C23: every pool dispatch that returns (add-liquidity, remove-liquidity,
\* swap, unknown topic) returns the default result, whose refresh flag is
\* false, whatever it reclassified; a result with the flag set comes from a
\* gauge dispatch of a recognized topic that wrote an event.
C23_OnlyGaugeRequestsRefresh ==
    /\ (last.kind = "pool" /\ ~last.raised)
          => /\ last.output = DEFAULT_DECODING_OUTPUT
             /\ ~last.output.refresh_balances
    /\ last.output.refresh_balances
          => /\ last.kind = "gauge"
             /\ last.log.topic0 \in GAUGE_TOPICS
             /\ last.touched # {}

\* C23 witness: after a gauge dispatch had reclassified an event, a pool
\* dispatch made an event a deposit, a withdrawal or a trade and returned
\* with the refresh flag false.
C23_Witness ==
    /\ ndispatch = 2
    /\ last.kind = "pool"
    /\ ~last.raised
    /\ ~last.output.refresh_balances
    /\ \E i \in 1..Len(pre) :
         /\ pre[i].id \in last.touched
         /\ After(i).event_type \in PoolReclassifiedTypes
         /\ After(i).event_type # pre[i].event_type
    /\ \E i \in 1..Len(pre) :
         /\ pre[i].product = PRODUCT_GAUGE
         /\ pre[i].counterparty = CPT_AERODROME

====
